---- MODULE Spec2Model ----
(***************************************************************************)
(* A model of the anl2025 tournament scheduler (tournament.py), of the      *)
(* session runner (runner.py) and of the center utility-function family     *)
(* (ufun.py).                                                               *)
(*                                                                          *)
(* Six specifications share the module:                                     *)
(*   SpecPrepare    Tournament.run: job generation alone.                   *)
(*   Spec           Tournament.run: job generation, serial or parallel      *)
(*                  dispatch and scoring.                                   *)
(*   SpecConstruct  Tournament.from_scenarios, then job generation on the   *)
(*                  tournament it returns.                                  *)
(*   SpecAssign     runner.assign_scenario called on its own.               *)
(*   SpecNJobs      the worker count Tournament.run derives from n_jobs.    *)
(*   SpecUFun       the pure functions of ufun.py (flatten / unflatten,     *)
(*                  center and side utility evaluation) on bounded inputs.  *)
(*                                                                          *)
(* Utilities are Python floats.  They are modelled as non-negative binary   *)
(* floating-point numbers counted in units of a fixed power of two, with a  *)
(* significand of MantissaBits bits and round-to-nearest-even, so that the  *)
(* order of additions is observable as it is with IEEE doubles.             *)
(***************************************************************************)
EXTENDS Integers, Sequences, FiniteSets, Bags, TLC

VARIABLES
    \* ---- Tournament.run -------------------------------------------------
    self,          \* the Tournament object: competitors, scenarios
    args,          \* the arguments of Tournament.run
    pc,            \* position of Tournament.run
    i,             \* repetition loop variable (line 310)
    k,             \* scenario loop variable (line 315)
    j,             \* rotation loop variable (line 319)
    competitors,   \* the local list `competitors` (lines 311, 318, 376)
    jobs,          \* the local list `jobs`
    pending,       \* indices of the jobs not yet taken by the dispatch loop
    results,       \* the local list `results` (session_results)
    scores,        \* the local list `scores`
    final_scores,  \* the local defaultdict `final_scores`
    failed,        \* indices of the jobs whose session (run_session) raised
    raised,        \* the exception that left Tournament.run, or "none"
    files,         \* the trace files written under the output path
    ran,           \* indices of the jobs whose mechanisms were run (runall)
    \* ---- ufun.py --------------------------------------------------------
    ufun,          \* the object under test
    call,          \* the last operation applied to it and its arguments
    ret            \* what that operation returned

tvars == <<self, args, pc, i, k, j, competitors, jobs, pending, results,
           scores, final_scores, failed, raised, files, ran>>
uvars == <<ufun, call, ret>>
vars == <<self, args, pc, i, k, j, competitors, jobs, pending, results,
          scores, final_scores, failed, raised, files, ran, ufun, call, ret>>

(***************************************************************************)
(* Bounds of the model.                                                     *)
(***************************************************************************)
MaxCompetitors == 3
MaxEdges == 2
MaxRepetitions == 2
MaxScenarios == 2
\* total number of participant slots (center + edges, over all jobs) of a run
MaxSlots == 12
\* number of jobs of a run that is followed through dispatch and scoring
MaxJobs == 2
\* participants of all the sessions of a run that is dispatched
MaxPlayers == 6
\* significand width of the modelled floats (53 for a Python float)
MantissaBits == 3
\* negotiation threads of a center utility function under test
MaxThreads == 2
\* issues of one thread's outcome space
MaxIssues == 2

(***************************************************************************)
(* Python values.                                                           *)
(***************************************************************************)
\* an optional number: None is the empty tuple, x is <<x>>
NoNumber == <<>>

Some(x) == <<x>>

\* an optional path: None is the empty string
NoPath == ""

\* None in the place of an outcome (a tuple of issue values)
NoOutcome == <<"None">>

Min(a, b) == IF a < b THEN a ELSE b

Max(a, b) == IF a < b THEN b ELSE a

\* s[b:e] for 0 <= b, 0 <= e (0-based, end exclusive, clamped to the list)
Slice(s, b, e) ==
    LET hi == Min(e, Len(s))
    IN  IF b >= hi THEN <<>> ELSE SubSeq(s, b + 1, hi)

\* every reordering of the list s (the outcomes of random.shuffle)
Shuffles(s) ==
    { [x \in 1..Len(s) |-> s[p[x]]] : p \in Permutations(1..Len(s)) }

RECURSIVE Pow2(_)
Pow2(n) == IF n = 0 THEN 1 ELSE 2 * Pow2(n - 1)

RECURSIVE Log2(_)
\* floor(log2(x)) for x >= 1
Log2(x) == IF x < 2 THEN 0 ELSE 1 + Log2(x \div 2)

\* spacing of the floats around x >= 0
Ulp(x) == IF x < Pow2(MantissaBits) THEN 1 ELSE Pow2(Log2(x) - MantissaBits + 1)

\* x >= 0 rounded to the nearest float, ties to the even significand
Round(x) ==
    LET q == Ulp(x)
        lo == (x \div q) * q
        r == x - lo
    IN  IF 2 * r < q THEN lo
        ELSE IF 2 * r > q THEN lo + q
        ELSE IF (lo \div q) % 2 = 0 THEN lo ELSE lo + q

\* float + float
FAdd(a, b) == Round(a + b)

\* float * number
FMul(a, b) == Round(a * b)

RECURSIVE FSum(_)
\* sum(xs): left to right, starting from 0
FSum(xs) == IF xs = <<>> THEN 0 ELSE FAdd(FSum(SubSeq(xs, 1, Len(xs) - 1)), xs[Len(xs)])


(***************************************************************************)
(* Inputs.                                                                  *)
(***************************************************************************)
\* the competitor identities (type name, disambiguated by its parameters)
CompetitorNames == <<"A", "B", "C", "D">>

\* a fill-in type that is no competitor
NonCompetitorName == "X"

\* what a negotiation thread can end with: no agreement, or an agreement
SessionAgreements == {NoOutcome, <<"v1">>}

\* edge.ufun(agreement) of runner.py line 175: an edge's utility function
\* gives None its reserved value
EdgeUFun(agreement) == IF agreement = NoOutcome THEN 1 ELSE 8

\* center.ufun(tuple(agreements)) of runner.py line 173: the center's
\* utility function gives the tuple without any agreement its reserved value
CenterUFun(agreements) ==
    IF \A x \in 1..Len(agreements) : agreements[x] = NoOutcome THEN 1 ELSE 6

\* n_jobs as resolved at lines 276..284: None is serial, a positive number
\* of workers is parallel
Cores == 2

\* a scenario's name: absent, or the name the second unnamed scenario of a
\* tuple is given (line 317)
ScenarioNames == {"", "s001"}

ScenarioSet ==
    { [name |-> nm, n_edges |-> n] : nm \in ScenarioNames, n \in 0..MaxEdges }

ScenarioTuples ==
    UNION { [1..len -> ScenarioSet] : len \in 1..MaxScenarios }

RECURSIVE SlotsOf(_)
\* participant slots one pass over the scenarios needs per competitor
SlotsOf(scenarios) ==
    IF scenarios = <<>> THEN 0
    ELSE scenarios[1].n_edges + 1 + SlotsOf(Tail(scenarios))

TournamentSet ==
    { [competitors |-> SubSeq(CompetitorNames, 1, m), scenarios |-> s] :
        m \in 1..MaxCompetitors, s \in ScenarioTuples }

\* the arguments of Tournament.run; the two multipliers are left at their
\* defaults together or given together
RunArgsSet ==
    { a \in [ n_repetitions : 1..MaxRepetitions,
              path : {NoPath, "out"},
              dry : BOOLEAN,
              no_double_scores : BOOLEAN,
              non_comptitor_types : {<<>>, <<NonCompetitorName>>},
              n_jobs : {NoNumber, Some(Cores)},
              center_multiplier : {NoNumber, Some(3)},
              edge_multiplier : {1, 2} ] :
        (a.center_multiplier = NoNumber) <=> (a.edge_multiplier = 1) }

(***************************************************************************)
(* Tournament.run: job generation (lines 309..376).                         *)
(***************************************************************************)
\* sname (line 317)
SName(scenario, kk) ==
    IF scenario.name # "" THEN scenario.name ELSE "s00" \o ToString(kk)

\* players (lines 320..329): the first nedges + 1 competitors, or all of
\* them followed by nedges + 1 - len(competitors) random choices.  `fill`
\* marks the entries random.choices added; the code keeps no such mark.
PlayersSet(comps, nedges, non_competitors) ==
    LET own == [x \in 1..Len(comps) |-> [id |-> comps[x], fill |-> FALSE]]
        pool == IF non_competitors # <<>> THEN non_competitors ELSE comps
        extra == nedges + 1 - Len(comps)
    IN  IF Len(comps) >= nedges + 1
        THEN { SubSeq(own, 1, nedges + 1) }
        ELSE { own \o [x \in 1..extra |-> [id |-> pool[c[x]], fill |-> TRUE]] :
                 c \in [1..extra -> 1..Len(pool)] }

\* nedges_counted (lines 331..335)
NEdgesCounted(nedges, ncompetitors, no_double_scores) ==
    IF ~no_double_scores THEN nedges ELSE Min(ncompetitors - 1, nedges)

\* players[1:] whatever the center
WithoutFirst(players, jj) == Slice(players, 1, Len(players))

\* players[:j] + players[j + 1:] (line 341)
WithoutIndex(players, jj) ==
    Slice(players, 0, jj) \o Slice(players, jj + 1, Len(players))

\* assign_scenario with the types dealt from the end of edge_types
assign_scenario_reversed(scenario, center_type, edge_types, edge_params) ==
    LET nedges == scenario.n_edges
        params == IF edge_params = <<>> THEN [x \in 1..nedges |-> <<>>]
                  ELSE edge_params
        n == Min(nedges, Len(params))
    IN  [ center |-> center_type,
          edges |-> [x \in 1..n |->
                       edge_types[Len(edge_types) - ((x - 1) % Len(edge_types))]],
          edge_ufuns |-> [x \in 1..n |-> x] ]

\* assign_scenario(..., sample_edges=False): the negotiator type of every
\* thread (runner.py lines 201..220); edge_ufuns[x] is the position in
\* scenario.edge_ufuns of the utility function edge x is created with
assign_scenario(scenario, center_type, edge_types, edge_params) ==
    LET nedges == scenario.n_edges
        params == IF edge_params = <<>> THEN [x \in 1..nedges |-> <<>>]
                  ELSE edge_params
        n == Min(nedges, Len(params))
    IN  [ center |-> center_type,
          edges |-> [x \in 1..n |-> edge_types[((x - 1) % Len(edge_types)) + 1]],
          edge_ufuns |-> [x \in 1..n |-> x] ]

\* output (lines 336..339): path / "results" / sname / f"r{j:03}t{i:03}"
Output(path, sname, ii, jj) ==
    IF path # NoPath
    THEN path \o "/results/" \o sname \o "/r00" \o ToString(jj)
              \o "t00" \o ToString(ii)
    ELSE NoPath

\* the JobInfo appended at lines 358..373
MakeJobInfo(scenario, players, edge_info, ii, jj, kk, nedges_counted) ==
    LET edges == [x \in 1..Len(edge_info) |-> edge_info[x].id]
        edge_params == [x \in 1..Len(edge_info) |-> <<>>]
    IN  [ assigned |-> assign_scenario(scenario, players[jj + 1].id, edges, edge_params),
          output |-> Output(args.path, SName(scenario, kk), ii, jj),
          sname |-> SName(scenario, kk),
          i |-> ii, j |-> jj, k |-> kk,
          center |-> players[jj + 1].id,
          edges |-> edges,
          edge_info |-> edge_info,
          nedges_counted |-> nedges_counted ]

\* [competitors[-1]] + competitors[:-1] (line 376)
Rotate(comps) ==
    IF comps = <<>> THEN <<>>
    ELSE <<comps[Len(comps)]>> \o SubSeq(comps, 1, Len(comps) - 1)

TInit ==
    /\ self \in TournamentSet
    /\ args \in RunArgsSet
    /\ args.n_repetitions * Len(self.competitors) * SlotsOf(self.scenarios)
         <= MaxSlots
    /\ pc = "rep"
    /\ i = 0
    /\ k = 0
    /\ j = 0
    /\ competitors = <<>>
    /\ jobs = <<>>
    /\ pending = {}
    /\ results = <<>>
    /\ scores = <<>>
    /\ final_scores = <<>>
    /\ failed = {}
    /\ raised = "none"
    /\ files = {}
    /\ ran = {}

UIdle ==
    /\ ufun = [type |-> "none"]
    /\ call = [op |-> "none"]
    /\ ret = [error |-> "none"]

\* the jobs a run prepares when no job raises
PlannedJobs ==
    args.n_repetitions * Len(self.scenarios) * Len(self.competitors)

\* the participants of the sessions of those jobs
PlannedPlayers ==
    args.n_repetitions * Len(self.competitors) * SlotsOf(self.scenarios)

\* the complete run is explored for unnamed scenarios
Init ==
    /\ TInit
    /\ UIdle
    /\ \A x \in 1..Len(self.scenarios) : self.scenarios[x].name = ""
    /\ PlannedJobs <= MaxJobs
    /\ PlannedPlayers <= MaxPlayers

InitPrepare == TInit /\ UIdle

\* line 310..314: the next repetition starts, `competitors` is rebuilt from
\* the tournament's competitors
BeginRepetition ==
    /\ pc = "rep"
    /\ i < args.n_repetitions
    /\ competitors' = self.competitors
    /\ k' = 0
    /\ pc' = "scen"
    /\ UNCHANGED <<self, args, i, j, jobs, pending, results, scores,
                   final_scores, failed, raised, ufun, call, ret,
                   files, ran>>

\* lines 315..318: the next scenario, the competitors are shuffled
BeginScenario ==
    /\ pc = "scen"
    /\ k < Len(self.scenarios)
    /\ competitors' \in Shuffles(competitors)
    /\ j' = 0
    /\ pc' = "rot"
    /\ UNCHANGED <<self, args, i, k, jobs, pending, results, scores,
                   final_scores, failed, raised, ufun, call, ret,
                   files, ran>>

\* lines 319..373: one rotation: the job whose center is players[j]
MakeJob ==
    /\ pc = "rot"
    /\ j < Len(competitors)
    /\ LET scenario == self.scenarios[k + 1]
           nedges == scenario.n_edges
       IN  \E players \in PlayersSet(competitors, nedges, args.non_comptitor_types) :
             /\ j < Len(players)
             /\ \E edge_info \in Shuffles(WithoutIndex(players, j)) :
                  jobs' = Append(jobs,
                            MakeJobInfo(scenario, players, edge_info, i, j, k,
                              NEdgesCounted(nedges, Len(competitors),
                                            args.no_double_scores)))
    /\ j' = j + 1
    /\ UNCHANGED <<self, args, pc, i, k, competitors, pending, results, scores,
                   final_scores, failed, raised, ufun, call, ret,
                   files, ran>>

\* line 340: players[j] with j beyond the nedges + 1 players raises IndexError,
\* which leaves Tournament.run
MakeJobIndexError ==
    /\ pc = "rot"
    /\ j < Len(competitors)
    /\ \E players \in PlayersSet(competitors, self.scenarios[k + 1].n_edges,
                                 args.non_comptitor_types) :
         j >= Len(players)
    /\ raised' = "IndexError"
    /\ pc' = "raised"
    /\ UNCHANGED <<self, args, i, k, j, competitors, jobs, pending, results,
                   scores, final_scores, failed, ufun, call, ret,
                   files, ran>>

\* line 319: the rotations of this scenario are exhausted
EndScenario ==
    /\ pc = "rot"
    /\ j = Len(competitors)
    /\ k' = k + 1
    /\ pc' = "scen"
    /\ UNCHANGED <<self, args, i, j, competitors, jobs, pending, results,
                   scores, final_scores, failed, raised, ufun, call, ret,
                   files, ran>>

\* line 376: after the last scenario of a repetition the list is rotated
EndRepetition ==
    /\ pc = "scen"
    /\ k = Len(self.scenarios)
    /\ competitors' = Rotate(competitors)
    /\ i' = i + 1
    /\ pc' = "rep"
    /\ UNCHANGED <<self, args, k, j, jobs, pending, results, scores,
                   final_scores, failed, raised, ufun, call, ret,
                   files, ran>>

\* line 427: all jobs are prepared, the dispatch starts
BeginDispatch ==
    /\ pc = "rep"
    /\ i = args.n_repetitions
    /\ pending' = 1..Len(jobs)
    /\ pc' = "dispatch"
    /\ UNCHANGED <<self, args, i, k, j, competitors, jobs, results, scores,
                   final_scores, failed, raised, ufun, call, ret,
                   files, ran>>

(***************************************************************************)
(* Sessions (run_session, lines 82..107, and AssignedScenario.run).         *)
(***************************************************************************)
\* what AssignedScenario.run can return for a job: on a dry run zero
\* utilities (runner.py lines 140..148), else whatever the negotiations
\* yield (lines 169..179)
SessionResultsSet(job, dry) ==
    LET nedges == Len(job.assigned.edges)
    IN  IF dry
        THEN { [ agreements |-> [x \in 1..nedges |-> NoOutcome],
                 center_utility |-> 0,
                 edge_utilities |-> [x \in 1..nedges |-> 0] ] }
        ELSE { [ agreements |-> agreements,
                 center_utility |-> CenterUFun(agreements),
                 edge_utilities |-> [x \in 1..nedges |-> EdgeUFun(agreements[x])] ] :
                 agreements \in [1..nedges -> SessionAgreements] }

\* name (tournament.py line 94): f"{sname}_{j}_{i}"
SessionName(job) ==
    job.sname \o "_" \o ToString(job.j) \o "_" \o ToString(job.i)

\* the trace files of the first n mechanisms of a session (runner.py lines
\* 157..166): base / "log" / f"{m.id}.csv" with base = output / name; the
\* plot of each mechanism is written next to them
SessionFiles(job, n) ==
    IF job.output = NoPath THEN {}
    ELSE { job.output \o "/" \o SessionName(job) \o "/log/n"
             \o ToString(e) \o ".csv" : e \in 0..(n - 1) }

\* the trace files are written on a dry run too
WrittenAlways(job, dry) == SessionFiles(job, Len(job.assigned.edges))

\* the files a session has written once it returned: none on a dry run
\* (the return of line 141 comes before line 150)
WrittenBy(job, dry) ==
    IF dry THEN {} ELSE SessionFiles(job, Len(job.assigned.edges))

\* how far a session that raises can have come: it raised before runall
\* (stage -1), or in or after runall with stage files written
FailureStages(job) ==
    -1..(IF job.output = NoPath THEN 0 ELSE Len(job.assigned.edges))

\* the SessionInfo run_session returns (lines 98..107)
MakeSessionInfo(job, r) ==
    [ scenario_name |-> job.sname,
      repetition |-> job.i,
      rotation |-> job.j,
      center_type_name |-> job.center,
      edge_type_names |-> job.edges,
      results |-> r ]

(***************************************************************************)
(* process_info (lines 380..425).                                           *)
(***************************************************************************)
\* final_scores[cname] = u: the score is overwritten, not accumulated
AddScoreOverwrite(fs, cname, u) ==
    IF cname \in DOMAIN fs
    THEN [fs EXCEPT ![cname] = u]
    ELSE fs @@ (cname :> u)

\* final_scores[cname] += u on a defaultdict(float)
AddScore(fs, cname, u) ==
    IF cname \in DOMAIN fs
    THEN [fs EXCEPT ![cname] = FAdd(@, u)]
    ELSE fs @@ (cname :> FAdd(0, u))

\* the center's ScoreRecord with the utility left unscaled
CenterRecordUnscaled(job, r, center_multiplier) ==
    [ agent |-> job.center,
      utility |-> r.center_utility,
      partner_average_utility |->
          <<FSum(r.edge_utilities), Len(r.edge_utilities)>>,
      scenario |-> job.sname,
      repetition |-> job.i,
      rotation |-> job.j,
      scenario_index |-> job.k,
      index |-> 0 ]

\* the center's ScoreRecord (lines 395..406)
CenterRecord(job, r, center_multiplier) ==
    [ agent |-> job.center,
      utility |-> FMul(r.center_utility, center_multiplier),
      partner_average_utility |->
          <<FSum(r.edge_utilities), Len(r.edge_utilities)>>,
      scenario |-> job.sname,
      repetition |-> job.i,
      rotation |-> job.j,
      scenario_index |-> job.k,
      index |-> 0 ]

\* the ScoreRecord of edge e (0-based; lines 410..421)
EdgeRecord(job, r, e, edge_multiplier) ==
    [ agent |-> job.edge_info[e + 1].id,
      utility |-> FMul(r.edge_utilities[e + 1], edge_multiplier),
      partner_average_utility |-> <<r.center_utility, 1>>,
      scenario |-> job.sname,
      repetition |-> job.i,
      rotation |-> job.j,
      scenario_index |-> job.k,
      index |-> e + 1 ]

\* every edge is scored, nedges_counted is ignored
AllEdges(job) == job.edge_info

\* job.edge_info[: job.nedges_counted] (line 408)
CountedEdges(job) == Slice(job.edge_info, 0, job.nedges_counted)

\* the edges add nothing to final_scores
AddNoEdgeScores(fs, job, r, n) == fs

RECURSIVE AddEdgeScores(_, _, _, _)
\* final_scores after the first n passes of the loop of lines 408..422
AddEdgeScores(fs, job, r, n) ==
    IF n = 0 THEN fs
    ELSE AddScore(AddEdgeScores(fs, job, r, n - 1),
                  job.edge_info[n].id, r.edge_utilities[n])

\* process_info(job, info) applied to st = [results, scores, final_scores]:
\* the lists and the dict after the call, and the exception it raised.
\* The division of line 394 raises when the session has no edge, after
\* line 387 has appended the session.
process_info(st, job, info) ==
    LET r == info.results
        center_multiplier ==
            IF args.center_multiplier # NoNumber THEN args.center_multiplier[1]
            ELSE Len(job.edge_info)
        n == Len(CountedEdges(job))
    IN  IF Len(r.edge_utilities) = 0
        THEN [ results |-> Append(st.results, info),
               scores |-> st.scores,
               final_scores |-> st.final_scores,
               error |-> "ZeroDivisionError" ]
        ELSE [ results |-> Append(st.results, info),
               scores |-> Append(st.scores, CenterRecord(job, r, center_multiplier))
                            \o [e \in 1..n |->
                                  EdgeRecord(job, r, e - 1, args.edge_multiplier)],
               final_scores |-> AddEdgeScores(
                                  AddScore(st.final_scores, job.center, r.center_utility),
                                  job, r, n),
               error |-> "none" ]

Collected == [results |-> results, scores |-> scores, final_scores |-> final_scores]

(***************************************************************************)
(* Tournament.run: dispatch (lines 427..451).                               *)
(***************************************************************************)
Serial == args.n_jobs = NoNumber

\* the job the serial loop of line 428 handles next
NextJob == CHOOSE n \in pending : \A o \in pending : n <= o

\* lines 428..430, the session of the next job returns and is processed; an
\* exception of process_info leaves Tournament.run
SerialRun ==
    /\ pc = "dispatch"
    /\ Serial
    /\ pending # {}
    /\ \E r \in SessionResultsSet(jobs[NextJob], args.dry) :
         LET st == process_info(Collected, jobs[NextJob],
                               MakeSessionInfo(jobs[NextJob], r))
         IN  /\ results' = st.results
             /\ scores' = st.scores
             /\ final_scores' = st.final_scores
             /\ raised' = st.error
             /\ pc' = IF st.error = "none" THEN pc ELSE "raised"
    /\ pending' = pending \ {NextJob}
    /\ ran' = IF args.dry THEN ran ELSE ran \cup {NextJob}
    /\ files' = files \cup WrittenBy(jobs[NextJob], args.dry)
    /\ UNCHANGED <<self, args, i, k, j, competitors, jobs, failed,
                   ufun, call, ret>>

\* line 429, the session of the next job raises: nothing catches it
SerialSessionRaises ==
    /\ pc = "dispatch"
    /\ Serial
    /\ pending # {}
    /\ ~args.dry
    /\ failed' = failed \cup {NextJob}
    /\ pending' = pending \ {NextJob}
    /\ raised' = "JobExecutionError"
    /\ pc' = "raised"
    /\ \E stage \in FailureStages(jobs[NextJob]) :
         /\ ran' = IF stage < 0 THEN ran ELSE ran \cup {NextJob}
         /\ files' = files \cup SessionFiles(jobs[NextJob], stage)
    /\ UNCHANGED <<self, args, i, k, j, competitors, jobs, results, scores,
                   final_scores, ufun, call, ret>>

\* lines 440..445, some future completes with a result, which is processed;
\* an exception of process_info is caught and printed
ParallelRun ==
    /\ pc = "dispatch"
    /\ ~Serial
    /\ \E n \in pending :
         /\ \E r \in SessionResultsSet(jobs[n], args.dry) :
              LET st == process_info(Collected, jobs[n], MakeSessionInfo(jobs[n], r))
              IN  /\ results' = st.results
                  /\ scores' = st.scores
                  /\ final_scores' = st.final_scores
         /\ pending' = pending \ {n}
         /\ ran' = IF args.dry THEN ran ELSE ran \cup {n}
         /\ files' = files \cup WrittenBy(jobs[n], args.dry)
    /\ UNCHANGED <<self, args, pc, i, k, j, competitors, jobs, failed, raised,
                   ufun, call, ret>>

\* lines 441..445, some future completes with an exception: future.result()
\* raises it, it is caught and printed
ParallelSessionRaises ==
    /\ pc = "dispatch"
    /\ ~Serial
    /\ ~args.dry
    /\ \E n \in pending :
         /\ failed' = failed \cup {n}
         /\ pending' = pending \ {n}
         /\ \E stage \in FailureStages(jobs[n]) :
              /\ ran' = IF stage < 0 THEN ran ELSE ran \cup {n}
              /\ files' = files \cup SessionFiles(jobs[n], stage)
    /\ UNCHANGED <<self, args, pc, i, k, j, competitors, jobs, results, scores,
                   final_scores, raised, ufun, call, ret>>

\* lines 447..451: the TournamentResults are returned
Return ==
    /\ pc = "dispatch"
    /\ pending = {}
    /\ pc' = "returned"
    /\ UNCHANGED <<self, args, i, k, j, competitors, jobs, pending, results,
                   scores, final_scores, failed, raised, ufun, call, ret,
                   files, ran>>

Next ==
    \/ BeginRepetition
    \/ BeginScenario
    \/ MakeJob
    \/ MakeJobIndexError
    \/ EndScenario
    \/ EndRepetition
    \/ BeginDispatch
    \/ SerialRun
    \/ SerialSessionRaises
    \/ ParallelRun
    \/ ParallelSessionRaises
    \/ Return

Spec == Init /\ [][Next]_vars

\* job generation alone, for every tournament within MaxSlots
Prepare ==
    \/ BeginRepetition
    \/ BeginScenario
    \/ MakeJob
    \/ MakeJobIndexError
    \/ EndScenario
    \/ EndRepetition
    \/ BeginDispatch

SpecPrepare == InitPrepare /\ [][Prepare]_vars

(***************************************************************************)
(* runner.assign_scenario called on its own (runner.py lines 182..227).     *)
(***************************************************************************)

\* the longest edge_types list of a call
MaxEdgeTypes == 2

\* the arguments of assign_scenario, sample_edges left false; a parameter
\* map is dict()
AssignScenarioArgs ==
    [ op : {"assign_scenario"},
      scenario : ScenarioSet,
      center_type : {CompetitorNames[1]},
      edge_types : UNION { [1..len -> {CompetitorNames[1], CompetitorNames[2]}] :
                             len \in 0..MaxEdgeTypes },
      edge_params : UNION { [1..len -> {<<>>}] : len \in 0..(MaxEdges + 1) } ]

\* the call: agents[i % len(edge_types)] (line 218) divides by zero when a
\* thread is instantiated from an empty edge_types
AssignScenarioCall(a) ==
    LET created == IF a.edge_params = <<>> THEN a.scenario.n_edges
                   ELSE Min(a.scenario.n_edges, Len(a.edge_params))
    IN  IF a.edge_types = <<>> /\ created > 0
        THEN [error |-> "ZeroDivisionError"]
        ELSE [error |-> "none",
              value |-> assign_scenario(a.scenario, a.center_type,
                                        a.edge_types, a.edge_params)]

InitAssign ==
    /\ self = [competitors |-> <<>>, scenarios |-> <<>>]
    /\ args = [n_repetitions |-> 0]
    /\ pc = "idle"
    /\ i = 0
    /\ k = 0
    /\ j = 0
    /\ competitors = <<>>
    /\ jobs = <<>>
    /\ pending = {}
    /\ results = <<>>
    /\ scores = <<>>
    /\ final_scores = <<>>
    /\ failed = {}
    /\ raised = "none"
    /\ files = {}
    /\ ran = {}
    /\ UIdle

\* assign_scenario(scenario, run_params, center_type, None, edge_types,
\* edge_params)
CallAssignScenario ==
    /\ pc = "idle" /\ call.op = "none"
    /\ \E a \in AssignScenarioArgs :
         /\ call' = a
         /\ ret' = AssignScenarioCall(a)
    /\ UNCHANGED <<tvars, ufun>>

NextAssign == CallAssignScenario

SpecAssign == InitAssign /\ [][NextAssign]_vars

(***************************************************************************)
(* The worker count of Tournament.run (tournament.py lines 276..284).       *)
(***************************************************************************)

\* a float n_jobs is a multiple of 1 / FractionDen
FractionDen == 8

\* the largest cpu_count() and the largest integer n_jobs of a call
MaxCpuCount == 4
MaxNJobs == 3

\* n_jobs as the caller passes it: None, an int, or the float
\* num / FractionDen
NJobsArgs ==
    {[type |-> "None"]}
    \cup { [type |-> "int", v |-> n] : n \in (0 - MaxNJobs)..MaxNJobs }
    \cup { [type |-> "float", num |-> n] :
             n \in (0 - FractionDen)..(2 * FractionDen) }

\* int(p / q) for q > 0: truncation towards zero
IntOf(p, q) == IF p >= 0 THEN p \div q ELSE 0 - ((0 - p) \div q)

\* lines 277..280: a float becomes int(0.5 + cpu_count() * n_jobs) when it
\* is below 1.0 and int(0.5 + n_jobs) otherwise
n_jobs_as_int(n_jobs, cpu_count) ==
    IF n_jobs.num < FractionDen
    THEN IntOf(FractionDen + 2 * cpu_count * n_jobs.num, 2 * FractionDen)
    ELSE IntOf(FractionDen + 2 * n_jobs.num, 2 * FractionDen)

\* lines 276..284: n_jobs as the dispatch of lines 427..433 sees it, None
\* (serial) or the max_workers of the pool
n_jobs_resolved(n_jobs, cpu_count) ==
    IF n_jobs.type = "None" THEN NoNumber
    ELSE LET v == IF n_jobs.type = "float"
                  THEN n_jobs_as_int(n_jobs, cpu_count)
                  ELSE n_jobs.v
         IN  IF v < 0 THEN NoNumber
             ELSE IF v = 0 THEN Some(cpu_count)
             ELSE Some(v)

\* Tournament.run(n_jobs=...) up to line 284 on a machine of cpu_count cores
CallResolveNJobs ==
    /\ pc = "idle" /\ call.op = "none"
    /\ \E n_jobs \in NJobsArgs : \E cpu_count \in 1..MaxCpuCount :
         /\ call' = [op |-> "n_jobs", n_jobs |-> n_jobs, cpu_count |-> cpu_count]
         /\ ret' = [error |-> "none", value |-> n_jobs_resolved(n_jobs, cpu_count)]
    /\ UNCHANGED <<tvars, ufun>>

NextNJobs == CallResolveNJobs

SpecNJobs == InitAssign /\ [][NextNJobs]_vars

(***************************************************************************)
(* Tournament.from_scenarios (lines 117..162), followed by the job         *)
(* generation of run() on the tournament it returns.                       *)
(***************************************************************************)

\* participant slots of the runs that follow a construction
MaxConstructSlots == 18

\* no tournament object
NoTournament == [competitors |-> <<>>, scenarios |-> <<>>]

\* anl2025.scenario.make_multideal_scenario: a scenario of nedges threads
make_multideal_scenario(nedges) == [name |-> "", n_edges |-> nedges]

\* the arguments of from_scenarios that reach lines 137..161
FromScenariosArgs ==
    [ op : {"from_scenarios"},
      competitors : { SubSeq(CompetitorNames, 1, m) : m \in 1..MaxCompetitors },
      scenarios : UNION { [1..len -> ScenarioSet] : len \in 0..1 },
      n_generated : 0..1,
      nedges : 1..(MaxEdges + 1) ]

\* from_scenarios without the test of lines 137..140
from_scenarios_unchecked(comps, scenarios, n_generated, nedges) ==
    [error |-> "none",
     value |-> [competitors |-> comps,
                scenarios |-> scenarios \o
                    [x \in 1..n_generated |-> make_multideal_scenario(nedges)]]]

\* lines 137..161: ValueError when nedges exceeds the number of competitors,
\* otherwise the tournament over the given scenarios followed by the
\* n_generated generated ones
from_scenarios(comps, scenarios, n_generated, nedges) ==
    IF nedges > Len(comps)
    THEN [error |-> "ValueError"]
    ELSE [error |-> "none",
          value |-> [competitors |-> comps,
                     scenarios |-> scenarios \o
                         [x \in 1..n_generated |-> make_multideal_scenario(nedges)]]]

InitConstruct ==
    /\ self = NoTournament
    /\ args \in RunArgsSet
    /\ args.path = NoPath /\ ~args.dry /\ args.n_jobs = NoNumber
    /\ args.center_multiplier = NoNumber
    /\ ~args.no_double_scores /\ args.non_comptitor_types = <<>>
    /\ call \in FromScenariosArgs
    /\ args.n_repetitions * Len(call.competitors)
          * (SlotsOf(call.scenarios) + call.n_generated * (call.nedges + 1))
         <= MaxConstructSlots
    /\ pc = "construct"
    /\ i = 0
    /\ k = 0
    /\ j = 0
    /\ competitors = <<>>
    /\ jobs = <<>>
    /\ pending = {}
    /\ results = <<>>
    /\ scores = <<>>
    /\ final_scores = <<>>
    /\ failed = {}
    /\ raised = "none"
    /\ files = {}
    /\ ran = {}
    /\ ufun = [type |-> "none"]
    /\ ret = [error |-> "none"]

\* Tournament.from_scenarios(...): the tournament, or ValueError and no
\* tournament
FromScenarios ==
    /\ pc = "construct"
    /\ LET r == from_scenarios(call.competitors, call.scenarios,
                               call.n_generated, call.nedges)
       IN  /\ ret' = r
           /\ IF r.error = "none"
              THEN self' = r.value /\ pc' = "rep"
              ELSE self' = self /\ pc' = "failed"
    /\ UNCHANGED <<args, i, k, j, competitors, jobs, pending, results,
                   scores, final_scores, failed, raised, ufun, call,
                   files, ran>>

NextConstruct ==
    \/ FromScenarios
    \/ BeginRepetition
    \/ BeginScenario
    \/ MakeJob
    \/ MakeJobIndexError
    \/ EndScenario
    \/ EndRepetition
    \/ BeginDispatch

SpecConstruct == InitConstruct /\ [][NextConstruct]_vars

(***************************************************************************)
(* Properties of Tournament.run.                                            *)
(***************************************************************************)
NCompetitors == Len(self.competitors)

\* the jobs of repetition rr and scenario kk
JobsOf(rr, kk) == { n \in 1..Len(jobs) : jobs[n].i = rr /\ jobs[n].k = kk }

\* the ScoreRecords of job n, as positions of `scores`
RecordsOf(n) ==
    { x \in 1..Len(scores) :
        /\ scores[x].repetition = jobs[n].i
        /\ scores[x].scenario_index = jobs[n].k
        /\ scores[x].rotation = jobs[n].j }

\* the sessions of job n, as positions of `results`
SessionsOf(n) ==
    { x \in 1..Len(results) :
        /\ results[x].repetition = jobs[n].i
        /\ results[x].scenario_name = jobs[n].sname
        /\ results[x].rotation = jobs[n].j }

\* job n needs fill-ins: fewer competitors than participants
NeedsFillIns(n) == NCompetitors < Len(jobs[n].edge_info) + 1

\* C1 (as claimed): the order a repetition after the first starts from is the
\* rotated order the previous repetition ended with; it is never rebuilt from
\* the tournament's competitors.
C1_OrderPersistsAcrossRepetitions ==
    [][(pc = "rep" /\ pc' = "scen" /\ i > 0) => competitors' = competitors]_vars

\* C2 (as claimed): with every scenario of at least one thread, job generation
\* never fails, and once it is done every (repetition, scenario) pair has
\* exactly m jobs, every competitor being the center of exactly one.
C2_EveryCompetitorCentersOnce ==
    (\A x \in 1..Len(self.scenarios) : self.scenarios[x].n_edges >= 1) =>
        /\ raised # "IndexError"
        /\ pc = "dispatch" =>
             \A rr \in 0..(args.n_repetitions - 1) :
               \A kk \in 0..(Len(self.scenarios) - 1) :
                 /\ Cardinality(JobsOf(rr, kk)) = NCompetitors
                 /\ \A c \in 1..NCompetitors :
                      Cardinality({ n \in JobsOf(rr, kk) :
                                      jobs[n].center = self.competitors[c] }) = 1

\* C3 (as claimed): with no_double_scores and a pool smaller than n_edges + 1,
\* nedges_counted is min(poolSize - 1, n_edges), no fill-in has a ScoreRecord,
\* and the scored edges of a processed session are exactly its non-fill-ins.
C3_FillInsNeverScored ==
    args.no_double_scores =>
      \A n \in 1..Len(jobs) :
        NeedsFillIns(n) =>
          /\ jobs[n].nedges_counted =
               Min(NCompetitors - 1, Len(jobs[n].edge_info))
          /\ \A x \in RecordsOf(n) :
               scores[x].index > 0 => ~jobs[n].edge_info[scores[x].index].fill
          /\ \A e \in 1..Len(jobs[n].edge_info) :
               (SessionsOf(n) # {} /\ ~jobs[n].edge_info[e].fill) =>
                 \E x \in RecordsOf(n) : scores[x].index = e

\* C4 (as claimed): a job whose session raises leaves no session result and
\* no ScoreRecord, its exception never leaves Tournament.run, and every other
\* job has been executed and scored when the run ends.
C4_FailingJobIsolated ==
    /\ raised # "JobExecutionError"
    /\ \A n \in failed : SessionsOf(n) = {} /\ RecordsOf(n) = {}
    /\ (pc \in {"returned", "raised"} /\ raised \in {"none", "JobExecutionError"}) =>
         \A n \in (1..Len(jobs)) \ failed :
           SessionsOf(n) # {} /\ RecordsOf(n) # {}

\* C5 (as claimed): whichever sessions fail, and in either dispatch mode,
\* Tournament.run ends only by returning its TournamentResults (job
\* generation and process_info not raising themselves).
C5_AlwaysReturnsResults ==
    (~ENABLED Next /\ raised \notin {"IndexError", "ZeroDivisionError"}) =>
        pc = "returned"

\* the session of job n as recorded in `results`
InfoOf(n) == results[CHOOSE x \in SessionsOf(n) : TRUE]

RECURSIVE SerialDispatch(_)
\* results, scores and final_scores as the serial loop of lines 428..430
\* leaves them after the first n jobs, every job yielding the session
\* recorded for it
SerialDispatch(n) ==
    IF n = 0 THEN [results |-> <<>>, scores |-> <<>>, final_scores |-> <<>>]
    ELSE process_info(SerialDispatch(n - 1), jobs[n], InfoOf(n))

\* the run has returned and no job failed, in its session or in process_info
ReturnedWithoutFailure ==
    /\ pc = "returned"
    /\ failed = {}
    /\ \A n \in 1..Len(jobs) : Len(jobs[n].edge_info) > 0

\* the number of additions made to final_scores[a]
Addends(a) == Cardinality({ x \in 1..Len(scores) : scores[x].agent = a })

Distance(a, b) == IF a < b THEN b - a ELSE a - b

\* the records of a list, counted
BagOfSeq(seq) ==
    [ x \in { seq[n] : n \in 1..Len(seq) } |->
        Cardinality({ n \in 1..Len(seq) : seq[n] = x }) ]

JobOfSession(x) == CHOOSE n \in 1..Len(jobs) : x \in SessionsOf(n)

\* job n has a session whose processing went through: process_info raises
\* for a session without edges (line 394)
Completed(n) ==
    SessionsOf(n) # {} /\ Len(InfoOf(n).results.edge_utilities) > 0

\* the multiplier of the center's utility for job n: the one given, else
\* the edge count of the session
CenterMultiplierOf(n) ==
    IF args.center_multiplier # NoNumber THEN args.center_multiplier[1]
    ELSE Len(InfoOf(n).results.edge_utilities)

\* C14: each completed session appends exactly 1 + nedges_counted
\* ScoreRecords: one for the center, with index 0 and utility = center
\* utility x center_multiplier (the session's edge count when no multiplier
\* is given), and one for each counted edge e, with index e + 1 and utility
\* = that edge's utility x edge_multiplier; all carry the job's scenario
\* name, repetition, rotation and scenario index.  No other record exists.
C14_RecordsOfCompletedSession ==
    /\ \A n \in 1..Len(jobs) :
         Completed(n) =>
           /\ Cardinality(RecordsOf(n)) = 1 + jobs[n].nedges_counted
           /\ \A x \in RecordsOf(n) : scores[x].scenario = jobs[n].sname
           /\ \E x \in RecordsOf(n) :
                /\ scores[x].index = 0
                /\ scores[x].agent = jobs[n].center
                /\ scores[x].utility =
                     FMul(InfoOf(n).results.center_utility, CenterMultiplierOf(n))
           /\ \A e \in 0..(jobs[n].nedges_counted - 1) :
                \E x \in RecordsOf(n) :
                  /\ scores[x].index = e + 1
                  /\ scores[x].agent = jobs[n].edge_info[e + 1].id
                  /\ scores[x].utility =
                       FMul(InfoOf(n).results.edge_utilities[e + 1],
                            args.edge_multiplier)
    /\ \A x \in 1..Len(scores) :
         \E n \in 1..Len(jobs) : Completed(n) /\ x \in RecordsOf(n)

\* C14 witness: a completed session with a multiplier given for the center,
\* an edge multiplier other than 1, and fewer counted edges than edges
C14_Witness ==
    \E n \in 1..Len(jobs) :
        /\ Completed(n)
        /\ jobs[n].nedges_counted >= 1
        /\ jobs[n].nedges_counted < Len(jobs[n].edge_info)
        /\ args.center_multiplier # NoNumber
        /\ args.edge_multiplier # 1

\* the raw utilities identity a obtained in the session results[x], center
\* first, then the first `upto` edge positions in order
SessionUtilities(a, x, upto) ==
    LET job == jobs[JobOfSession(x)]
        r == results[x].results
        edges == SelectSeq([e \in 1..Min(upto, Len(job.edge_info)) |-> e],
                           LAMBDA e : job.edge_info[e].id = a)
    IN  (IF job.center = a THEN <<r.center_utility>> ELSE <<>>)
        \o [e \in 1..Len(edges) |-> r.edge_utilities[edges[e]]]

RECURSIVE RawUtilities(_, _, _)
\* the raw utilities identity a obtained in the first x sessions that were
\* processed, in processing order; with counted_only, of the center and the
\* counted edge positions alone
RawUtilities(a, x, counted_only) ==
    IF x = 0 THEN <<>>
    ELSE LET job == jobs[JobOfSession(x)]
         IN  RawUtilities(a, x - 1, counted_only)
             \o (IF Len(results[x].results.edge_utilities) = 0 THEN <<>>
                 ELSE SessionUtilities(a, x,
                        IF counted_only THEN job.nedges_counted
                        ELSE Len(job.edge_info)))

\* the identities that played a role in a session that was processed
Identities ==
    UNION { {jobs[JobOfSession(x)].center}
            \cup { jobs[JobOfSession(x)].edge_info[e].id :
                     e \in 1..Len(jobs[JobOfSession(x)].edge_info) } :
            x \in 1..Len(results) }

\* final_scores[a] of the defaultdict: 0.0 for an identity never added
FinalScoreOf(a) == IF a \in DOMAIN final_scores THEN final_scores[a] ELSE 0

\* C15 as stated: once all sessions are processed, final_scores[a] is the
\* sum of the raw utilities a obtained in every completed session in any
\* role, center or any edge position, those beyond nedges_counted included.
C15_FinalScoresSumEveryRole ==
    pc = "returned" =>
        \A a \in Identities :
            FinalScoreOf(a) = FSum(RawUtilities(a, Len(results), FALSE))

\* C15: final_scores[a] is the sum, in processing order, of the raw
\* (unscaled) utilities a obtained as the center or in one of the first
\* nedges_counted edge positions of every completed session; an edge
\* position beyond nedges_counted adds nothing, and an identity that only
\* ever played such positions has no entry.
C15_FinalScoresSumCountedRoles ==
    /\ \A a \in Identities :
         FinalScoreOf(a) = FSum(RawUtilities(a, Len(results), TRUE))
    /\ \A a \in DOMAIN final_scores :
         a \in Identities /\ RawUtilities(a, Len(results), TRUE) # <<>>

\* C15 witness: the run returned and some identity played an edge position
\* beyond nedges_counted in a completed session, besides a counted role
C15_Witness ==
    /\ pc = "returned"
    /\ \E a \in DOMAIN final_scores :
         Len(RawUtilities(a, Len(results), FALSE))
           > Len(RawUtilities(a, Len(results), TRUE))

\* C16: with dry set, no session runs its mechanisms (runall) or writes a
\* trace file, every session returns one absent agreement per edge, center
\* utility 0.0 and edge utility 0.0 for every edge, and the tournament
\* scores every identity 0.
C16_DryRunExecutesNothing ==
    args.dry =>
        /\ ran = {}
        /\ files = {}
        /\ \A x \in 1..Len(results) :
             LET r == results[x].results
             IN  /\ Len(r.agreements) = Len(results[x].edge_type_names)
                 /\ \A e \in 1..Len(r.agreements) : r.agreements[e] = NoOutcome
                 /\ r.center_utility = 0
                 /\ Len(r.edge_utilities) = Len(results[x].edge_type_names)
                 /\ \A e \in 1..Len(r.edge_utilities) : r.edge_utilities[e] = 0
        /\ \A x \in 1..Len(scores) : scores[x].utility = 0
        /\ \A a \in DOMAIN final_scores : final_scores[a] = 0

\* C16 witness: a dry run with an output path returned after processing
\* and scoring a session with edges
C16_Witness ==
    /\ args.dry
    /\ args.path # NoPath
    /\ pc = "returned"
    /\ \E n \in 1..Len(jobs) : Completed(n) /\ Cardinality(RecordsOf(n)) >= 2

\* C17: any two distinct jobs of a run that is given a path have distinct
\* output paths, whatever the names of the scenarios (absent or shared).
C17_DistinctJobsDistinctOutputs ==
    \A n \in 1..Len(jobs) : \A q \in 1..Len(jobs) :
        (n # q /\ jobs[n].output # NoPath) => jobs[n].output # jobs[q].output

\* the competitors are fewer than the threads of a scenario the caller
\* supplied, or of the scenarios to generate
TooFewCompetitors ==
    \/ call.n_generated > 0 /\ call.nedges > Len(call.competitors)
    \/ \E x \in 1..Len(call.scenarios) :
         call.scenarios[x].n_edges > Len(call.competitors)

\* C18 as stated: constructing a tournament with too few competitors for
\* the thread count of its scenarios, generated or supplied, fails: an
\* error, no tournament object, no job generated.
C18_TooFewCompetitorsNeverConstructs ==
    (pc # "construct" /\ TooFewCompetitors) =>
        /\ ret.error # "none"
        /\ self = NoTournament
        /\ jobs = <<>>

\* C18 amended: from_scenarios fails with ValueError, yielding no
\* tournament and generating no job, exactly when its nedges argument
\* exceeds the number of competitors; otherwise it returns the tournament
\* of the given competitors over the supplied scenarios, whatever their
\* thread counts, followed by n_generated scenarios of nedges threads.
C18_FailsExactlyWhenRequestedEdgesExceed ==
    pc # "construct" =>
        IF call.nedges > Len(call.competitors)
        THEN /\ ret.error = "ValueError"
             /\ pc = "failed"
             /\ self = NoTournament
             /\ jobs = <<>>
        ELSE /\ ret.error = "none"
             /\ self.competitors = call.competitors
             /\ Len(self.scenarios) = Len(call.scenarios) + call.n_generated
             /\ \A x \in 1..Len(call.scenarios) :
                  self.scenarios[x] = call.scenarios[x]
             /\ \A x \in 1..call.n_generated :
                  self.scenarios[Len(call.scenarios) + x].n_edges = call.nedges

\* C18 witness: a construction that was to generate a scenario of more
\* threads than there are competitors has failed
C18_Witness ==
    /\ pc = "failed"
    /\ call.n_generated > 0
    /\ call.nedges > Len(call.competitors)
    /\ ret.error = "ValueError"

\* one scenario, and as many competitors as a session has participants
PoolIsOneSession ==
    /\ Len(self.scenarios) = 1
    /\ NCompetitors = self.scenarios[1].n_edges + 1

\* the jobs prepared so far whose center is competitor c
CenteredBy(c) == { n \in 1..Len(jobs) : jobs[n].center = c }

\* C19: with one scenario and n_edges + 1 competitors, job generation
\* never fails, the participants of every job (center and edges, as
\* instantiated) are exactly the competitors, one position each and none a
\* fill-in, every competitor has been center once per completed
\* repetition, and exactly n_repetitions times when generation is over.
C19_WholePoolPlaysEveryJob ==
    PoolIsOneSession =>
        /\ raised = "none"
        /\ \A n \in 1..Len(jobs) :
             LET a == jobs[n].assigned
             IN  /\ Len(a.edges) = self.scenarios[1].n_edges
                 /\ a.center = jobs[n].center
                 /\ {a.center} \cup { a.edges[x] : x \in 1..Len(a.edges) }
                      = { self.competitors[x] : x \in 1..NCompetitors }
                 /\ \A x \in 1..Len(jobs[n].edge_info) :
                      ~jobs[n].edge_info[x].fill
        /\ \A x \in 1..NCompetitors :
             LET n == Cardinality(CenteredBy(self.competitors[x]))
             IN  /\ pc = "rep" => n = i
                 /\ pc = "dispatch" => n = args.n_repetitions
                 /\ i <= n /\ n <= i + 1

\* C19 witness: competitors A, B, C, one scenario of 2 edges, 2
\* repetitions, all 6 jobs prepared
C19_Witness ==
    /\ pc = "dispatch"
    /\ PoolIsOneSession
    /\ NCompetitors = 3
    /\ args.n_repetitions = 2
    /\ Len(jobs) = 6

\* C20: assign_scenario with sample_edges false, given a non-empty
\* edge_types and any edge_params, returns one center of center_type and
\* one edge per thread of the scenario, edge i created with the scenario's
\* i-th edge utility function and of type edge_types[i mod len(edge_types)].
C20_OneEdgePerThread ==
    (call.op = "assign_scenario" /\ call.edge_types # <<>>) =>
        /\ ret.error = "none"
        /\ ret.value.center = call.center_type
        /\ Len(ret.value.edges) = call.scenario.n_edges
        /\ \A x \in 1..Len(ret.value.edges) :
             /\ ret.value.edge_ufuns[x] = x
             /\ ret.value.edges[x] =
                  call.edge_types[((x - 1) % Len(call.edge_types)) + 1]

\* C21: with no_double_scores set, no identity receives more than one
\* ScoreRecord (center or counted edge) for the same scenario, repetition
\* and rotation, also when fill-ins are drawn from the competitors.
C21_OneRecordPerIdentityAndSession ==
    args.no_double_scores =>
        \A x \in 1..Len(scores) : \A y \in 1..Len(scores) :
            ( /\ x # y
              /\ scores[x].scenario_index = scores[y].scenario_index
              /\ scores[x].repetition = scores[y].repetition
              /\ scores[x].rotation = scores[y].rotation )
            => scores[x].agent # scores[y].agent

\* the n_jobs of the call is negative / is a fraction strictly between 0
\* and 1
NegativeNJobs ==
    \/ call.n_jobs.type = "int" /\ call.n_jobs.v < 0
    \/ call.n_jobs.type = "float" /\ call.n_jobs.num < 0

FractionNJobs ==
    /\ call.n_jobs.type = "float"
    /\ call.n_jobs.num > 0
    /\ call.n_jobs.num < FractionDen

\* w is fraction x cores rounded to the nearest integer (a tie either way)
NearestToFraction(w) ==
    LET d == w * FractionDen - call.cpu_count * call.n_jobs.num
    IN  2 * d <= FractionDen /\ 2 * (0 - d) <= FractionDen

\* C22: n_jobs None or negative selects serial dispatch; 0 a pool of all
\* cores; a fraction f in (0, 1) a pool of round(f x cores) workers (of one
\* worker when that is 0), never more; a positive integer n exactly n
\* workers; a pool has at least one worker.
C22_WorkerCountResolution ==
    call.op = "n_jobs" =>
        /\ (call.n_jobs.type = "None" \/ NegativeNJobs) => ret.value = NoNumber
        /\ (call.n_jobs.type = "int" /\ call.n_jobs.v = 0) =>
             ret.value = Some(call.cpu_count)
        /\ FractionNJobs =>
             /\ ret.value # NoNumber
             /\ \/ NearestToFraction(ret.value[1])
                \/ NearestToFraction(0) /\ ret.value[1] = 1
        /\ (call.n_jobs.type = "int" /\ call.n_jobs.v > 0) =>
             ret.value = Some(call.n_jobs.v)
        /\ ret.value # NoNumber => ret.value[1] >= 1

\* C23: for every number of competitors and of edges, job generation
\* never fails with an out-of-range center index, and every job has
\* exactly n_edges edges beside its center.
C23_CenterIndexAlwaysValid ==
    /\ raised # "IndexError"
    /\ \A n \in 1..Len(jobs) :
         /\ Len(jobs[n].edge_info) = self.scenarios[jobs[n].k + 1].n_edges
         /\ Len(jobs[n].edges) = Len(jobs[n].edge_info)

\* C24: in the TournamentResults a run returns, a session is in
\* session_results if and only if its center ScoreRecord and the records
\* of all its counted edges are in scores and its center has an entry in
\* final_scores: a failure while a result is processed leaves nothing
\* behind.
C24_RecordedAllOrNothing ==
    pc = "returned" =>
        \A n \in 1..Len(jobs) :
            SessionsOf(n) # {} <=>
                /\ \A e \in 0..jobs[n].nedges_counted :
                     \E x \in RecordsOf(n) : scores[x].index = e
                /\ jobs[n].center \in DOMAIN final_scores

\* float / number for a divisor b > 0: a / b rounded to the nearest float,
\* ties to the even significand
FDiv(a, b) ==
    LET q == Ulp(a \div b)
        lo == ((a \div b) \div q) * q
        r == a - lo * b
    IN  IF 2 * r < q * b THEN lo
        ELSE IF 2 * r > q * b THEN lo + q
        ELSE IF (lo \div q) % 2 = 0 THEN lo ELSE lo + q

\* the job whose session the ScoreRecord scores[x] belongs to
JobOfRecord(x) == CHOOSE n \in 1..Len(jobs) : x \in RecordsOf(n)

\* the utility the session gave the role of scores[x], before scaling, and
\* the multiplier of that role
RawUtilityOf(x) ==
    LET r == InfoOf(JobOfRecord(x)).results
    IN  IF scores[x].index = 0 THEN r.center_utility
        ELSE r.edge_utilities[scores[x].index]

MultiplierOf(x) ==
    IF scores[x].index = 0 THEN CenterMultiplierOf(JobOfRecord(x))
    ELSE args.edge_multiplier

\* the positions in `scores` of the records of agent a, in order
RecordsOfAgent(a) ==
    SelectSeq([x \in 1..Len(scores) |-> x], LAMBDA x : scores[x].agent = a)

\* the agents named in scores
ScoredAgents == { scores[x].agent : x \in 1..Len(scores) }

\* C26 as stated: at every point final_scores[a] is the sum over the
\* ScoreRecords of agent a of the record's utility divided by the
\* multiplier of its role, and the keys of final_scores are the agents
\* appearing in scores.
C26_FinalScoresAreUnscaledRecords ==
    /\ DOMAIN final_scores = ScoredAgents
    /\ \A a \in ScoredAgents :
         final_scores[a] =
           FSum([n \in 1..Len(RecordsOfAgent(a)) |->
                   FDiv(scores[RecordsOfAgent(a)[n]].utility,
                        MultiplierOf(RecordsOfAgent(a)[n]))])

\* C26 amended: at every point the keys of final_scores are the agents
\* appearing in scores, every ScoreRecord's utility is the float product
\* of the session's raw utility for that role and the role's multiplier,
\* and final_scores[a] is the float sum, in the order of the records, of
\* those raw utilities; dividing a record's utility by the multiplier gives
\* the raw utility back only to within one unit in the last place.
C26_FinalScoresAreRawSumOfRecords ==
    /\ DOMAIN final_scores = ScoredAgents
    /\ \A x \in 1..Len(scores) :
         /\ scores[x].utility = FMul(RawUtilityOf(x), MultiplierOf(x))
         /\ Distance(FDiv(scores[x].utility, MultiplierOf(x)), RawUtilityOf(x))
              <= Ulp(RawUtilityOf(x))
    /\ \A a \in ScoredAgents :
         final_scores[a] =
           FSum([n \in 1..Len(RecordsOfAgent(a)) |->
                   RawUtilityOf(RecordsOfAgent(a)[n])])

\* C26 witness: a record whose utility, divided by its multiplier, is not
\* the raw utility that was added to final_scores
C26_Witness ==
    \E x \in 1..Len(scores) :
        FDiv(scores[x].utility, MultiplierOf(x)) # RawUtilityOf(x)

\* C27: for every job with a completed session and every counted edge
\* position e, the ScoreRecord of index e + 1 names the identity
\* edge_info[e], which is the type of the negotiator assign_scenario
\* created for thread e with the scenario's e-th edge utility function and
\* the type the session reports for that thread, and its utility is that
\* thread's edge_utilities[e] times the edge multiplier, edge_utilities[e]
\* being that negotiator's utility of the thread's agreement unless the run
\* is dry.
C27_EdgeScoresGoToTheNegotiator ==
    \A n \in 1..Len(jobs) :
        Completed(n) =>
            /\ Len(jobs[n].assigned.edges) = Len(jobs[n].edge_info)
            /\ \A e \in 0..(jobs[n].nedges_counted - 1) :
                 \E x \in RecordsOf(n) :
                    /\ scores[x].index = e + 1
                    /\ scores[x].agent = jobs[n].edge_info[e + 1].id
                    /\ scores[x].agent = jobs[n].assigned.edges[e + 1]
                    /\ scores[x].agent = InfoOf(n).edge_type_names[e + 1]
                    /\ jobs[n].assigned.edge_ufuns[e + 1] = e + 1
                    /\ scores[x].utility =
                         FMul(InfoOf(n).results.edge_utilities[e + 1],
                              args.edge_multiplier)
                    /\ ~args.dry =>
                         InfoOf(n).results.edge_utilities[e + 1] =
                           EdgeUFun(InfoOf(n).results.agreements[e + 1])
                    /\ \A y \in RecordsOf(n) :
                         scores[y].index = e + 1 => y = x

\* C27 witness: a completed session with two counted edges of different
\* identities that ended differently, one with and one without agreement
C27_Witness ==
    \E n \in 1..Len(jobs) :
        /\ Completed(n)
        /\ jobs[n].nedges_counted = 2
        /\ jobs[n].edge_info[1].id # jobs[n].edge_info[2].id
        /\ InfoOf(n).results.agreements[1] # InfoOf(n).results.agreements[2]
        /\ Cardinality(RecordsOf(n)) = 3

(***************************************************************************)
(* ufun.py: outcomes and outcome spaces.                                    *)
(*                                                                          *)
(* An outcome is a tuple of issue values.  None in an outcome position is   *)
(* NoOutcome and None in an offer position is NoOffer: tuples of the same   *)
(* shape as the real values, different from every one of them.              *)
(***************************************************************************)
Values == <<"v0", "v1">>

NoOffer == << <<"None", "None">> >>

\* `not outcome`: None and the empty tuple
FalsyOutcome(outcome) == outcome = NoOutcome \/ outcome = <<>>

\* `not offer`: None and the empty tuple
FalsyOffer(offer) == offer = NoOffer \/ offer = <<>>

\* a Cartesian outcome space of s issues, for thread t (0-based)
CartesianSpace(t, s) ==
    [ type |-> "CartesianOutcomeSpace",
      name |-> "T" \o ToString(t),
      issues |-> [q \in 1..s |->
                    [name |-> "t" \o ToString(t) \o "i" \o ToString(q - 1),
                     values |-> Values]],
      outcomes |-> <<>> ]

\* an outcome space that only enumerates its outcomes: one-value tuples,
\* listed by their value
EnumeratingSpace(t) ==
    [ type |-> "EnumeratingOutcomeSpace",
      name |-> "T" \o ToString(t),
      issues |-> <<>>,
      outcomes |-> Values ]

\* an outcome space that is neither
OtherSpace(t) ==
    [ type |-> "OutcomeSpace", name |-> "T" \o ToString(t),
      issues |-> <<>>, outcomes |-> <<>> ]

\* make_os(issues, name)
make_os(issues, name) ==
    [ type |-> "CartesianOutcomeSpace", name |-> name, issues |-> issues,
      outcomes |-> <<>> ]

\* _name (lines 89..95)
IssueName(t, os_name, issue_name, add_index_to_issue_names, add_os_to_issue_name) ==
    LET x1 == issue_name
        x2 == IF add_os_to_issue_name /\ os_name # ""
              THEN os_name \o ":" \o x1 ELSE x1
    IN  IF add_index_to_issue_names THEN x2 \o ":" \o ToString(t) ELSE x2

\* the issues one outcome space contributes (lines 99..107); t is 0-based
IssuesOfSpace(os, t, add_index_to_issue_names, add_os_to_issue_name) ==
    IF os.type = "EnumeratingOutcomeSpace"
    THEN << [name |-> IssueName(t, "", os.name, add_index_to_issue_names,
                                add_os_to_issue_name),
             values |-> os.outcomes] >>
    ELSE [q \in 1..Len(os.issues) |->
            [name |-> IssueName(t, os.name, os.issues[q].name,
                                add_index_to_issue_names, add_os_to_issue_name),
             values |-> os.issues[q].values]]

RECURSIVE FlatIssues(_, _, _, _)
\* the issues of the first n outcome spaces, in input order
FlatIssues(outcome_spaces, n, add_index_to_issue_names, add_os_to_issue_name) ==
    IF n = 0 THEN <<>>
    ELSE FlatIssues(outcome_spaces, n - 1, add_index_to_issue_names,
                    add_os_to_issue_name)
         \o IssuesOfSpace(outcome_spaces[n], n - 1, add_index_to_issue_names,
                          add_os_to_issue_name)

\* flatten_outcome_spaces (lines 82..112)
flatten_outcome_spaces(outcome_spaces, add_index_to_issue_names, add_os_to_issue_name) ==
    IF \E t \in 1..Len(outcome_spaces) :
         outcome_spaces[t].type \notin
           {"EnumeratingOutcomeSpace", "CartesianOutcomeSpace"}
    THEN [error |-> "TypeError"]
    ELSE [ error |-> "none",
           outcome_space |->
               make_os(FlatIssues(outcome_spaces, Len(outcome_spaces),
                                  add_index_to_issue_names, add_os_to_issue_name),
                       ""),
           nissues |->
               [t \in 1..Len(outcome_spaces) |->
                  IF outcome_spaces[t].type = "EnumeratingOutcomeSpace" THEN 1
                  ELSE Len(outcome_spaces[t].issues)] ]

\* beg = [0] + nissues[:-1] (lines 54 and 277)
Beg(nissues) == <<0>> \o Slice(nissues, 0, Len(nissues) - 1)

\* unflatten_outcome_space (lines 49..59); zip(..., strict=True) raises when
\* beg and end differ in length, which is when nissues is empty
unflatten_outcome_space(outcome_space, nissues) ==
    IF Len(Beg(nissues)) # Len(nissues) THEN [error |-> "ValueError"]
    ELSE [ error |-> "none",
           value |-> [t \in 1..Len(nissues) |->
                        make_os(Slice(outcome_space.issues, Beg(nissues)[t], nissues[t]),
                                "OS" \o ToString(Beg(nissues)[t]))] ]

(***************************************************************************)
(* ufun.py: center utility functions.                                       *)
(***************************************************************************)
\* float(v[1:]) for an issue value "v<digit>" (line 375)
ParseValue(v) == (CHOOSE n \in 1..Len(Values) : Values[n] = v) - 1

\* the per-thread utility functions a combining center is built from: the
\* value of an absent outcome and the value of each issue value
ThreadUFuns ==
    { [reserved_value |-> 0, weights |-> [v0 |-> 1, v1 |-> 2]],
      [reserved_value |-> 3, weights |-> [v0 |-> 2, v1 |-> 1]] }

RECURSIVE SumWeights(_, _, _)
SumWeights(u, outcome, n) ==
    IF n = 0 THEN 0 ELSE SumWeights(u, outcome, n - 1) + u.weights[outcome[n]]

\* u(outcome) of a per-thread utility function, as called at line 306
ThreadUFunCall(u, outcome) ==
    IF outcome = NoOutcome THEN u.reserved_value
    ELSE SumWeights(u, outcome, Len(outcome))

\* the agreements of an offer: the 0-based slots holding an outcome
Agreements(offer) == { e \in 0..(Len(offer) - 1) : ~FalsyOutcome(offer[e + 1]) }

RECURSIVE SumSet(_)
SumSet(S) == IF S = {} THEN 0 ELSE LET x == CHOOSE x \in S : TRUE IN x + SumSet(S \ {x})

\* the evaluator a LambdaCenterUFun is built with (line 192): the 1-based
\* positions of the agreements, added up
LambdaEvaluator(offer) ==
    IF offer = NoOffer THEN 0 ELSE SumSet({ e + 1 : e \in Agreements(offer) })

\* CenterUFun.__init__ (lines 124..149) and the subclass constructors
MakeCenterUFun(type, outcome_spaces, reserved_value, ufuns) ==
    LET flat == flatten_outcome_spaces(outcome_spaces, TRUE, TRUE)
    IN  [ type |-> type,
          outcome_spaces |-> outcome_spaces,
          n_edges |-> Len(outcome_spaces),
          outcome_space |-> IF flat.error = "none" THEN flat.outcome_space
                            ELSE [type |-> "None", name |-> "", issues |-> <<>>,
                                  outcomes |-> <<>>],
          nissues |-> IF flat.error = "none" THEN flat.nissues ELSE <<>>,
          reserved_value |-> reserved_value,
          ufuns |-> ufuns ]

\* min() in place of max()
MinCenterUFun_combine(values) ==
    IF values = <<>> THEN [error |-> "ValueError"]
    ELSE [ error |-> "none",
           value |-> CHOOSE x \in { values[n] : n \in 1..Len(values) } :
                        \A n \in 1..Len(values) : x <= values[n] ]

\* MaxCenterUFun.combine (lines 322..323): max() of nothing raises
MaxCenterUFun_combine(values) ==
    IF values = <<>> THEN [error |-> "ValueError"]
    ELSE [ error |-> "none",
           value |-> CHOOSE x \in { values[n] : n \in 1..Len(values) } :
                        \A n \in 1..Len(values) : values[n] <= x ]

\* the first thread alone decides, the other slots of the offer are ignored
FirstThreadCenterUFun_eval(center, offer) ==
    IF FalsyOffer(offer) THEN [error |-> "none", value |-> center.reserved_value]
    ELSE [error |-> "none", value |-> ThreadUFunCall(center.ufuns[1], offer[1])]

\* UtilityCombiningCenterUFun.eval (lines 303..306)
UtilityCombiningCenterUFun_eval(center, offer) ==
    IF FalsyOffer(offer) THEN [error |-> "none", value |-> center.reserved_value]
    ELSE MaxCenterUFun_combine(
             [t \in 1..Min(Len(center.ufuns), Len(offer)) |->
                 ThreadUFunCall(center.ufuns[t], offer[t])])

\* LambdaCenterUFun.eval (lines 194..195)
LambdaCenterUFun_eval(center, offer) ==
    [error |-> "none", value |-> LambdaEvaluator(offer)]

\* MeanSMCenterUFun.eval (lines 363..379); the value of the last line is
\* the statistic of vals, kept as the lists it is computed from
MeanSMCenterUFun_eval(center, offer) ==
    IF FalsyOffer(offer) THEN [error |-> "none", value |-> "0.0"]
    ELSE IF Len(offer) < 2 THEN [error |-> "none", value |-> "0.1"]
    ELSE LET n_edges == Len(offer)
             vals == [e \in Agreements(offer) |->
                        [x \in 1..n_edges |->
                           IF x <= Len(offer[e + 1])
                           THEN ParseValue(offer[e + 1][x]) ELSE 0]]
         IN  IF DOMAIN vals = {} THEN [error |-> "ZeroDivisionError"]
             ELSE [error |-> "none", value |-> "mean+std", vals |-> vals]

\* center.eval(offer), by the class of the center
CenterEval(center, offer) ==
    CASE center.type = "MaxCenterUFun" -> UtilityCombiningCenterUFun_eval(center, offer)
      [] center.type = "LambdaCenterUFun" -> LambdaCenterUFun_eval(center, offer)
      [] center.type = "MeanSMCenterUFun" -> MeanSMCenterUFun_eval(center, offer)

\* CenterUFun.side_ufuns (lines 177..182): the views carry the parent's n_edges
CenterUFun_side_ufuns(center, n_edges) ==
    [x \in 1..n_edges |-> [n_edges |-> center.n_edges, index |-> x - 1]]

\* SingleAgreementSideUFunMixin.side_ufuns (lines 352..357): the views carry
\* the n_edges of the call
SingleAgreementSideUFunMixin_side_ufuns(center, n_edges) ==
    [x \in 1..n_edges |-> [n_edges |-> n_edges, index |-> x - 1]]

\* UtilityCombiningCenterUFun.side_ufuns (lines 308..312)
UtilityCombiningCenterUFun_side_ufuns(center, n_edges) ==
    IF n_edges # Len(center.ufuns) THEN [error |-> "AssertionError"]
    ELSE [error |-> "none", value |-> center.ufuns]

\* center.side_ufuns(n_edges), by the class of the center
SideUFuns(center, n_edges) ==
    CASE center.type = "MaxCenterUFun" ->
           UtilityCombiningCenterUFun_side_ufuns(center, n_edges)
      [] center.type = "LambdaCenterUFun" ->
           [error |-> "none", value |-> CenterUFun_side_ufuns(center, n_edges)]
      [] center.type = "MeanSMCenterUFun" ->
           [error |-> "none",
            value |-> SingleAgreementSideUFunMixin_side_ufuns(center, n_edges)]

\* the tuple SideUFun.eval builds (lines 340..341)
SideOffers(view, offer) ==
    [x \in 1..view.n_edges |-> IF x = view.index + 1 THEN offer ELSE NoOutcome]

\* SideUFun.eval (lines 339..342): the assignment at line 341 raises for an
\* index outside the list
SideUFun_eval(center, view, offer) ==
    IF view.index >= view.n_edges THEN [error |-> "IndexError", offers |-> <<>>]
    ELSE LET r == CenterEval(center, SideOffers(view, offer))
         IN  IF r.error # "none" THEN [error |-> r.error, offers |-> SideOffers(view, offer)]
             ELSE [error |-> "none", value |-> r.value,
                   offers |-> SideOffers(view, offer)]

\* FlatCenterUFun._unflatten (lines 276..282)
FlatCenterUFun_unflatten(nissues, outcome) ==
    IF Len(Beg(nissues)) # Len(nissues) THEN [error |-> "ValueError"]
    ELSE [ error |-> "none",
           value |-> [t \in 1..Len(nissues) |->
                        Slice(outcome, Beg(nissues)[t], nissues[t])] ]

\* FlatCenterUFun.eval (lines 284..285) of the flattened view of center
FlatCenterUFun_eval(center, offer) ==
    LET u == FlatCenterUFun_unflatten(center.nissues, offer)
    IN  IF u.error # "none" THEN [error |-> u.error, offers |-> <<>>]
        ELSE LET r == CenterEval(center, u.value)
             IN  IF r.error # "none" THEN [error |-> r.error, offers |-> u.value]
                 ELSE [error |-> "none", value |-> r.value, offers |-> u.value]

(***************************************************************************)
(* The center utility functions under test and the calls made on them.      *)
(***************************************************************************)
\* the outcome spaces of the threads: Cartesian ones of 1..MaxIssues issues,
\* the last one possibly of another kind
OutcomeSpaceTuples ==
    UNION { { [t \in 1..n |->
                 IF t = n /\ last = "EnumeratingOutcomeSpace" THEN EnumeratingSpace(t - 1)
                 ELSE IF t = n /\ last = "OutcomeSpace" THEN OtherSpace(t - 1)
                 ELSE CartesianSpace(t - 1, S[t])] :
              S \in [1..n -> 1..MaxIssues],
              last \in {"CartesianOutcomeSpace", "EnumeratingOutcomeSpace",
                        "OutcomeSpace"} } :
            n \in 1..MaxThreads }

ReservedValues == {0, 5}

CenterUFunSet ==
    UNION { { MakeCenterUFun("MaxCenterUFun", os, r, us) :
                r \in ReservedValues, us \in [1..Len(os) -> ThreadUFuns] }
            \cup { MakeCenterUFun(type, os, r, <<>>) :
                     r \in ReservedValues,
                     type \in {"LambdaCenterUFun", "MeanSMCenterUFun"} } :
            os \in OutcomeSpaceTuples }

\* the outcomes of an outcome space
OutcomesOf(os) ==
    CASE os.type = "CartesianOutcomeSpace" ->
           [1..Len(os.issues) -> { Values[n] : n \in 1..Len(Values) }]
      [] os.type = "EnumeratingOutcomeSpace" ->
           { <<os.outcomes[n]>> : n \in 1..Len(os.outcomes) }
      [] OTHER -> {}

\* the offers a center is evaluated on: None, the empty tuple, and tuples of
\* at most n_edges slots, each an outcome of its thread or None
OfferSet(center) ==
    {NoOffer, <<>>}
    \cup UNION { { o \in [1..n -> UNION { OutcomesOf(center.outcome_spaces[t]) :
                                        t \in 1..n } \cup {NoOutcome}] :
                     \A t \in 1..n :
                        o[t] \in OutcomesOf(center.outcome_spaces[t]) \cup {NoOutcome} } :
                 n \in 1..center.n_edges }

AllCartesian(center) ==
    \A t \in 1..center.n_edges :
        center.outcome_spaces[t].type = "CartesianOutcomeSpace"

RECURSIVE Concat(_, _)
\* the concatenation of the first n outcomes of a tuple of outcomes
Concat(outcomes, n) ==
    IF n = 0 THEN <<>> ELSE Concat(outcomes, n - 1) \o outcomes[n]

\* no tournament is running while a utility function is exercised
TIdle ==
    /\ self = [competitors |-> <<>>, scenarios |-> <<>>]
    /\ args = [n_repetitions |-> 0]
    /\ pc = "idle"
    /\ i = 0
    /\ k = 0
    /\ j = 0
    /\ competitors = <<>>
    /\ jobs = <<>>
    /\ pending = {}
    /\ results = <<>>
    /\ scores = <<>>
    /\ final_scores = <<>>
    /\ failed = {}
    /\ raised = "none"
    /\ files = {}
    /\ ran = {}

InitUFun ==
    /\ TIdle
    /\ ufun \in CenterUFunSet
    /\ call = [op |-> "none"]
    /\ ret = [error |-> "none"]

\* ufun.eval(offer)
CallEval ==
    /\ pc = "idle" /\ call.op = "none"
    /\ \E offer \in OfferSet(ufun) :
         /\ call' = [op |-> "eval", offer |-> offer]
         /\ ret' = CenterEval(ufun, offer)
    /\ UNCHANGED <<tvars, ufun>>

\* ufun.side_ufuns(n_edges)
CallSideUFuns ==
    /\ pc = "idle" /\ call.op = "none"
    /\ \E n_edges \in 0..(MaxThreads + 1) :
         /\ call' = [op |-> "side_ufuns", n_edges |-> n_edges]
         /\ ret' = SideUFuns(ufun, n_edges)
    /\ UNCHANGED <<tvars, ufun>>

\* ufun.side_ufuns(n_edges)[index](offer) on the tuple just returned: a
\* combining center returned its per-thread functions, the others views
CallSideUFun ==
    /\ pc = "idle" /\ call.op = "side_ufuns" /\ ret.error = "none"
    /\ \E x \in 1..Len(ret.value) :
         \E offer \in OutcomesOf(ufun.outcome_spaces[Min(x, ufun.n_edges)])
                       \cup {NoOutcome} :
            /\ call' = [op |-> "side_ufun", n_edges |-> call.n_edges,
                        index |-> x - 1, offer |-> offer]
            /\ ret' = IF ufun.type = "MaxCenterUFun"
                      THEN [error |-> "none",
                            value |-> ThreadUFunCall(ret.value[x], offer),
                            offers |-> <<>>]
                      ELSE SideUFun_eval(ufun, ret.value[x], offer)
    /\ UNCHANGED <<tvars, ufun>>

\* flatten_outcome_spaces(ufun.outcome_spaces, ...)
CallFlatten ==
    /\ pc = "idle" /\ call.op = "none"
    /\ \E add_index_to_issue_names \in BOOLEAN, add_os_to_issue_name \in BOOLEAN :
         /\ call' = [op |-> "flatten_outcome_spaces",
                     add_index_to_issue_names |-> add_index_to_issue_names,
                     add_os_to_issue_name |-> add_os_to_issue_name]
         /\ ret' = flatten_outcome_spaces(ufun.outcome_spaces,
                                          add_index_to_issue_names,
                                          add_os_to_issue_name)
    /\ UNCHANGED <<tvars, ufun>>

\* unflatten_outcome_space on what flatten_outcome_spaces just returned
CallUnflatten ==
    /\ pc = "idle" /\ call.op = "flatten_outcome_spaces" /\ ret.error = "none"
    /\ call' = [op |-> "unflatten_outcome_space",
                outcome_space |-> ret.outcome_space, nissues |-> ret.nissues,
                add_index_to_issue_names |-> call.add_index_to_issue_names,
                add_os_to_issue_name |-> call.add_os_to_issue_name]
    /\ ret' = unflatten_outcome_space(ret.outcome_space, ret.nissues)
    /\ UNCHANGED <<tvars, ufun>>

\* ufun.flatten() evaluated on the concatenation of one outcome per thread
CallFlatEval ==
    /\ pc = "idle" /\ call.op = "none"
    /\ AllCartesian(ufun)
    /\ \E outcomes \in { o \in OfferSet(ufun) :
                           /\ o # NoOffer
                           /\ Len(o) = ufun.n_edges
                           /\ \A t \in 1..Len(o) : o[t] # NoOutcome } :
         /\ call' = [op |-> "FlatCenterUFun.eval", outcomes |-> outcomes,
                     offer |-> Concat(outcomes, Len(outcomes))]
         /\ ret' = FlatCenterUFun_eval(ufun, Concat(outcomes, Len(outcomes)))
    /\ UNCHANGED <<tvars, ufun>>

NextUFun ==
    \/ CallEval
    \/ CallSideUFuns
    \/ CallSideUFun
    \/ CallFlatten
    \/ CallUnflatten
    \/ CallFlatEval

SpecUFun == InitUFun /\ [][NextUFun]_vars

(***************************************************************************)
(* Properties of the center utility functions.                              *)
(***************************************************************************)
\* the tuple of n slots with offer at the 0-based position index and None
\* in every other slot
SingleAgreementOffer(n, index, offer) ==
    [x \in 1..n |-> IF x = index + 1 THEN offer ELSE NoOutcome]

\* a per-thread function of a combining center has just been evaluated
CombiningSideCall == call.op = "side_ufun" /\ ufun.type = "MaxCenterUFun"

\* what the center gives the tuple holding only the offer of that call
CenterOnSingleAgreement ==
    CenterEval(ufun, SingleAgreementOffer(ufun.n_edges, call.index, call.offer))

\* C7 as stated: for a combining center over k threads, side_ufuns(k)[i]
\* evaluated on o equals center.eval of the length-k tuple with o at
\* position i and None in every other position.
C7_SideEqualsCenterOnSingleAgreement ==
    CombiningSideCall =>
        /\ ret.error = "none"
        /\ CenterOnSingleAgreement.error = "none"
        /\ ret.value = CenterOnSingleAgreement.value

\* C7: for a max-combining center over k threads, side_ufuns(k)[i]
\* evaluated on o is u_i(o); center.eval of the length-k tuple with o at
\* position i and None elsewhere is the maximum of u_i(o) and of what the
\* other threads' functions give None, so it is never below the side value
\* and equals it exactly when no other thread's value of None exceeds u_i(o).
C7_CenterIsMaxOfSideAndAbsentThreads ==
    CombiningSideCall =>
        /\ ret.error = "none"
        /\ ret.value = ThreadUFunCall(ufun.ufuns[call.index + 1], call.offer)
        /\ CenterOnSingleAgreement.error = "none"
        /\ CenterOnSingleAgreement.value >= ret.value
        /\ \A t \in 1..ufun.n_edges :
             t # call.index + 1 =>
               CenterOnSingleAgreement.value
                 >= ThreadUFunCall(ufun.ufuns[t], NoOutcome)
        /\ (CenterOnSingleAgreement.value = ret.value
              <=> \A t \in 1..ufun.n_edges :
                     t # call.index + 1 =>
                       ThreadUFunCall(ufun.ufuns[t], NoOutcome) <= ret.value)

\* C7 witness: a side function of a combining center over several threads
\* was evaluated on an outcome and the center gives the single-agreement
\* tuple a different value
C7_Witness ==
    /\ CombiningSideCall
    /\ ufun.n_edges >= 2
    /\ call.offer # NoOutcome
    /\ CenterOnSingleAgreement.value # ret.value

\* the center uses the generic side-utility derivation
GenericSides == ufun.type \in {"LambdaCenterUFun", "MeanSMCenterUFun"}

\* C8: with the generic derivation, side_ufuns(n) returns n views for every
\* n, and view i evaluated on o evaluates the parent on a tuple of the
\* parent's n_edges slots, with o at position i and None in the others.
C8_GenericViewsUseParentEdges ==
    /\ (call.op = "side_ufuns" /\ GenericSides) =>
          ret.error = "none" /\ Len(ret.value) = call.n_edges
    /\ (call.op = "side_ufun" /\ GenericSides) =>
          /\ ret.error # "IndexError"
          /\ Len(ret.offers) = ufun.n_edges
          /\ call.index < ufun.n_edges
          /\ ret.offers = SingleAgreementOffer(ufun.n_edges, call.index, call.offer)

RECURSIVE Cumulative(_, _)
\* s1 + ... + sn
Cumulative(nissues, n) ==
    IF n = 0 THEN 0 ELSE Cumulative(nissues, n - 1) + nissues[n]

\* C9: flatten_outcome_spaces returns the issues of all threads in input
\* order together with the issue counts S, and unflatten_outcome_space of
\* that result returns one space per thread, the t-th holding exactly the
\* issues of the t-th input, sliced at the cumulative boundaries.
C9_UnflattenInvertsFlatten ==
    (call.op = "unflatten_outcome_space" /\ AllCartesian(ufun)) =>
        /\ call.nissues = [t \in 1..ufun.n_edges |-> Len(ufun.outcome_spaces[t].issues)]
        /\ call.outcome_space.issues =
             FlatIssues(ufun.outcome_spaces, ufun.n_edges,
                        call.add_index_to_issue_names, call.add_os_to_issue_name)
        /\ ret.error = "none"
        /\ Len(ret.value) = ufun.n_edges
        /\ \A t \in 1..ufun.n_edges :
             /\ ret.value[t].issues =
                  Slice(call.outcome_space.issues,
                        Cumulative(call.nissues, t - 1), Cumulative(call.nissues, t))
             /\ Len(ret.value[t].issues) = Len(ufun.outcome_spaces[t].issues)
             /\ \A q \in 1..Len(ret.value[t].issues) :
                  ret.value[t].issues[q].values = ufun.outcome_spaces[t].issues[q].values
             /\ (~call.add_index_to_issue_names /\ ~call.add_os_to_issue_name) =>
                  ret.value[t].issues = ufun.outcome_spaces[t].issues

\* C10: the flattened view evaluated on the concatenation of o1..ok equals
\* the center evaluated on (o1..ok): _unflatten of the concatenation
\* returns exactly (o1..ok).
C10_FlatViewAgreesWithCenter ==
    call.op = "FlatCenterUFun.eval" =>
        /\ ret.error = "none"
        /\ ret.offers = call.outcomes
        /\ CenterEval(ufun, call.outcomes).error = "none"
        /\ ret.value = CenterEval(ufun, call.outcomes).value

\* a max-combining center has just been evaluated on an offer
MaxEvalCall == call.op = "eval" /\ ufun.type = "MaxCenterUFun"

\* the offer of that call is a tuple with one slot per thread
FullOffer == ~FalsyOffer(call.offer) /\ Len(call.offer) = ufun.n_edges

\* C11: for a MaxCenterUFun over k threads, eval((o1..ok)) is the maximum
\* of u1(o1), ..., uk(ok) for every length-k tuple, and eval of None or of
\* the empty tuple is the reserved value of the center.
C11_MaxEvalIsMaximumOfThreads ==
    MaxEvalCall =>
        /\ ret.error = "none"
        /\ FalsyOffer(call.offer) => ret.value = ufun.reserved_value
        /\ FullOffer =>
             /\ \E t \in 1..ufun.n_edges :
                  ret.value = ThreadUFunCall(ufun.ufuns[t], call.offer[t])
             /\ \A t \in 1..ufun.n_edges :
                  ret.value >= ThreadUFunCall(ufun.ufuns[t], call.offer[t])

\* C11 witness: a max-combining center over several threads was evaluated
\* on a tuple of outcomes whose maximum is not the first thread's value
C11_Witness ==
    /\ MaxEvalCall
    /\ FullOffer
    /\ ufun.n_edges >= 2
    /\ \A t \in 1..ufun.n_edges : call.offer[t] # NoOutcome
    /\ ret.value > ThreadUFunCall(ufun.ufuns[1], call.offer[1])

\* C12: for a max-combining center over 2 threads, eval((None, None)) is
\* the reserved value of the center, whatever it is set to and whatever the
\* per-thread functions give None.
C12_AllAbsentIsReservedValue ==
    (MaxEvalCall /\ ufun.n_edges = 2 /\ call.offer = <<NoOutcome, NoOutcome>>) =>
        ret.error = "none" /\ ret.value = ufun.reserved_value

\* a MeanSMCenterUFun has just been evaluated on an offer
MeanSMEvalCall == call.op = "eval" /\ ufun.type = "MeanSMCenterUFun"

\* C13: MeanSMCenterUFun.eval gives 0.0 for None and for the empty tuple,
\* and 0.1 for every non-empty tuple with fewer than two agreements,
\* whatever the length of the tuple.
C13_MeanSMFewAgreements ==
    MeanSMEvalCall =>
        /\ FalsyOffer(call.offer) => ret.error = "none" /\ ret.value = "0.0"
        /\ (~FalsyOffer(call.offer) /\ Cardinality(Agreements(call.offer)) < 2) =>
             ret.error = "none" /\ ret.value = "0.1"

\* C25: MeanSMCenterUFun.eval returns a number, never raising, for every
\* offer tuple of length 2 or more, the tuple of absent outcomes included;
\* so does each of its side utilities, for 2 threads or more, on any
\* outcome, the absent one included.
C25_MeanSMNeverRaises ==
    ufun.type = "MeanSMCenterUFun" =>
        /\ (call.op = "eval" /\ ~FalsyOffer(call.offer) /\ Len(call.offer) >= 2)
             => ret.error = "none"
        /\ (call.op = "side_ufun" /\ call.n_edges >= 2
              /\ call.index < call.n_edges)
             => ret.error = "none"
====
